---- MODULE Spec2Model ----
(***************************************************************************)
(* One-way directory synchronizer (tiagomosantos/QA_Veeam_Task1).          *)
(*                                                                         *)
(* The model follows src/components/synchronizer.py (DirectorySynchronizer)*)
(* as the reference engine.  The two filesystem trees are maps from a      *)
(* small universe of relative paths to entries; each pass of the loop in   *)
(* sync_directories is a sequence of steps: walk dir1, walk dir2,          *)
(* classify, one step per iteration of the loops of purge,                 *)
(* checks_only_on_source and update_common_files, and the sleep.           *)
(*                                                                         *)
(* Environment failures (an OSError raised by a filesystem call) are       *)
(* nondeterministic outcomes of the step that makes the call; at most      *)
(* MaxFaults of them are injected per cycle.  Failures that follow from    *)
(* the state of the trees (a file where a directory is needed, a           *)
(* write-protected file) are deterministic and not counted.                *)
(***************************************************************************)
EXTENDS Integers, Sequences, FiniteSets, TLC

VARIABLES
    src,        \* the tree under dir1: [Paths -> Entry]
    rep,        \* the tree under dir2: [Paths -> Entry]
    pc,         \* position of the process
    cycle,      \* number of the current pass of the while loop
    snap1,      \* dir1_contents collected by walk_directory(dir1)
    snap2,      \* dir2_contents collected by walk_directory(dir2)
    cmp,        \* comparasion_object returned by compare
    todo,       \* entries the running for loop has not visited yet
    log,        \* records emitted to the logger during the current cycle
    acts,       \* filesystem calls made on the replica during the current
                \* cycle, with their result, in order
    faults,     \* environment failures injected during the current cycle
    rep0,       \* the replica tree as it was when the current cycle started
    prevClean,  \* the previous cycle ended with no error record
    prevFaults, \* environment failures injected during the previous cycle
    prevFailed, \* entries for which a filesystem call failed during the
                \* previous cycle
    srcRoot,    \* whether the directory given as source exists
    defRoot     \* whether the hard-coded path tests/folder1 exists

vars == <<src, rep, pc, cycle, snap1, snap2, cmp, todo, log, acts, faults,
          rep0, prevClean, prevFaults, prevFailed, srcRoot, defRoot>>

----------------------------------------------------------------------------
(* Bounds of the model *)

\* number of distinct file contents
MaxContent == 2
\* environment failures injected per cycle
MaxFaults == 1
\* passes of the while loop that are explored
MaxCycles == 2

----------------------------------------------------------------------------
(* Relative paths and entries *)

Root == <<>>

\* The universe of relative paths: a top-level name that may be a directory,
\* one name below it, and one more top-level name.
Paths == {<<"d">>, <<"d", "d">>, <<"g">>}

\* Path.parent
Parent(p) == SubSeq(p, 1, Len(p) - 1)

\* Path.name
Name(p) == p[Len(p)]

\* proper ancestors of p below the root
Ancestors(p) == {SubSeq(p, 1, k) : k \in 1..(Len(p) - 1)}

\* q is p or lies below p
IsUnder(q, p) == Len(p) <= Len(q) /\ SubSeq(q, 1, Len(p)) = p

\* paths that have a child in the universe; only these are ever directories
Inner == {p \in Paths : \E q \in Paths : Parent(q) = p}

Contents == 1..MaxContent

Absent == [kind |-> "none", content |-> 0, ro |-> FALSE]
Dir == [kind |-> "dir", content |-> 0, ro |-> FALSE]
File(c, r) == [kind |-> "file", content |-> c, ro |-> r]

SrcEntries == {Absent, Dir} \cup {File(c, FALSE) : c \in Contents}
RepEntries == {Absent, Dir} \cup {File(c, r) : c \in Contents, r \in BOOLEAN}

\* a tree is well formed when every entry lies in a directory
WellFormed(t) ==
    \A p \in Paths :
        /\ t[p].kind = "dir" => p \in Inner
        /\ t[p].kind # "none" =>
               (Parent(p) = Root \/ t[Parent(p)].kind = "dir")

EmptyTree == [p \in Paths |-> Absent]
SrcTrees == {t \in [Paths -> SrcEntries] : WellFormed(t)}
RepTrees == {t \in [Paths -> RepEntries] : WellFormed(t)}

\* Path.is_file / Path.is_dir on root / p
IsFile(t, p) == t[p].kind = "file"
IsDir(t, p) == t[p].kind = "dir"

\* hashlib.sha256(content).hexdigest(): injective on contents, never ""
Sha256(c) == <<"sha256", c>>

\* a log record
Rec(level, msg, root, rel) ==
    [level |-> level, msg |-> msg, root |-> root, rel |-> rel]

EmptyCmp == [only_dir1 |-> {}, only_dir2 |-> {}, common |-> {}]


\* a filesystem call and its result, made while the loops handle the entry rel
Act(op, rel) == [op |-> op, rel |-> rel]

\* what one call can do: the replica tree it leaves, the records it emits, the
\* filesystem calls it makes, the injected failures it uses, whether it raises
Out(t, l, a, u, r) == [rep |-> t, log |-> l, acts |-> a, used |-> u, raised |-> r]

\* o with the records l emitted and the calls a made before it
After(l, a, o) == Out(o.rep, l \o o.log, a \o o.acts, o.used, o.raised)

----------------------------------------------------------------------------
(* Filesystem primitives on a tree *)

\* the tree without the entry p
Remove(t, p) == [t EXCEPT ![p] = Absent]

\* Path.unlink(): a write-protected file raises PermissionError; an injected
\* failure raises PermissionError or another OSError
Unlink(t, p, budget) ==
    (IF t[p].ro
     THEN {[rep |-> t, used |-> 0, exc |-> "PermissionError"]}
     ELSE {[rep |-> Remove(t, p), used |-> 0, exc |-> "none"]})
    \cup
    (IF budget >= 1
     THEN {[rep |-> t, used |-> 1, exc |-> "PermissionError"],
           [rep |-> t, used |-> 1, exc |-> "OSError"]}
     ELSE {})

\* mutant of Chmod: the write protection is not cleared
Chmod_noop(t, p) == t

\* Path.chmod(stat.S_IWRITE): clears the write protection
Chmod(t, p) == [t EXCEPT ![p].ro = FALSE]

\* Path.mkdir(parents=True, exist_ok=True) on dir2 / q raises FileExistsError
\* or NotADirectoryError when q or one of its ancestors is a regular file
MkdirFails(t, q) == \E a \in Ancestors(q) \cup ({q} \ {Root}) : IsFile(t, a)

\* the directories Path.mkdir(parents=True, exist_ok=True) creates for q
MkdirNew(t, q) == {a \in Ancestors(q) \cup ({q} \ {Root}) : t[a].kind = "none"}

Mkdirs(t, q) == [p \in Paths |-> IF p \in MkdirNew(t, q) THEN Dir ELSE t[p]]

\* shutil.copy2(src, dst): a dst that is a directory receives the file under
\* the source's base name
Copy2Target(t, p) == IF IsDir(t, p) THEN Append(p, Name(p)) ELSE p

\* shutil.copy2 cannot open a write-protected or missing destination
Copy2Fails(t, p) ==
    LET q == Copy2Target(t, p) IN
    \/ q \notin Paths
    \/ t[q].kind = "dir"
    \/ (t[q].kind = "file" /\ t[q].ro)
    \/ (Parent(q) # Root /\ ~IsDir(t, Parent(q)))

\* shutil.copy2 copies content and mode bits
Copy2(t, e, p) == [t EXCEPT ![Copy2Target(t, p)] = File(e.content, e.ro)]

\* an entry shutil.rmtree(ignore_errors=True) cannot remove: a write-protected
\* file, or a directory that still holds one
Blocked(t, q) == \E r \in Paths : IsUnder(r, q) /\ IsFile(t, r) /\ t[r].ro

\* shutil.rmtree(dirpath, ignore_errors=True): removes what it can
Rmtree(t, p) ==
    [q \in Paths |-> IF IsUnder(q, p) /\ ~Blocked(t, q) THEN Absent ELSE t[q]]

----------------------------------------------------------------------------
(* walk_directory and compare *)

\* the directories rglob lists while walking the tree t
WalkDirs(t) == {Root} \cup {p \in Paths : IsDir(t, p)}

\* the relative paths rglob("*") yields when listing the directories in
\* failed raises: nothing below a directory that could not be listed
WalkResult(t, failed) ==
    {p \in Paths : /\ t[p].kind # "none"
                   /\ Root \notin failed
                   /\ Ancestors(p) \cap failed = {}}

\* the ways walk_directory(directory) can end: the set it collected, the
\* failures used, and the record of its except clause (reached by an OSError
\* that rglob does not swallow itself, as it does a PermissionError)
walk_directory(t, root, budget) ==
    {[set |-> WalkResult(t, {}), used |-> 0, log |-> <<>>]} \cup
    {[set |-> WalkResult(t, F), used |-> Cardinality(F),
      log |-> IF raised
                 THEN <<Rec("error", "Error accessing directory", root, Root)>>
                 ELSE <<>>] :
        F \in {G \in SUBSET WalkDirs(t) : G # {} /\ Cardinality(G) <= budget},
        raised \in BOOLEAN}

\* mutant of compare: the common paths are not removed from the first set
compare_keepcommon(s1, s2) ==
    LET common == s1 \cap s2 IN
    [only_dir1 |-> s1, only_dir2 |-> s2 \ common, common |-> common]

\* mutant of compare: only_dir2 computed from the wrong snapshot
compare_swapped(s1, s2) ==
    LET common == s1 \cap s2 IN
    [only_dir1 |-> s1 \ common, only_dir2 |-> s1 \ common, common |-> common]

\* classification of two snapshots
compare(s1, s2) ==
    LET common == s1 \cap s2 IN
    [only_dir1 |-> s1 \ common, only_dir2 |-> s2 \ common, common |-> common]

----------------------------------------------------------------------------
(* purge, delete_file, delete_directory *)

\* delete_file(filepath): unlink; on PermissionError chmod(S_IWRITE) and
\* unlink once more (an exception of the retry leaves the function); any
\* other OSError of the first unlink is logged here
delete_file(t, p, budget) ==
    UNION {
      IF r.exc = "none"
      THEN {Out(r.rep, <<>>, <<Act("unlink", p)>>, r.used, FALSE)}
      ELSE IF r.exc = "PermissionError"
      THEN {IF s.exc = "none"
            THEN Out(s.rep, <<>>, <<Act("unlink_failed", p), Act("unlink", p)>>,
                     r.used + s.used, FALSE)
            ELSE Out(s.rep, <<>>,
                     <<Act("unlink_failed", p), Act("unlink_failed", p)>>,
                     r.used + s.used, TRUE) :
               s \in Unlink(Chmod(t, p), p, budget - r.used)}
      ELSE {Out(t, <<Rec("error", "Error deleting file", "dir2", p)>>,
                <<Act("unlink_failed", p)>>, r.used, FALSE)} :
      r \in Unlink(t, p, budget)}

\* delete_directory(dirpath): rmtree(ignore_errors=True) never raises, so the
\* except clause is never entered; an injected failure removes nothing
delete_directory(t, p, budget) ==
    {Out(Rmtree(t, p), <<>>,
         IF Rmtree(t, p)[p] = Absent THEN <<Act("rmtree", p)>>
                                     ELSE <<Act("rmtree_failed", p)>>,
         0, FALSE)}
    \cup
    (IF budget >= 1
     THEN {Out(t, <<>>, <<Act("rmtree_failed", p)>>, 1, FALSE)} ELSE {})

\* mutant of PurgeCatch: the exception is not handled
PurgeCatch_reraise(o, f2) == o

\* the except clause of purge: the exception is logged and the loop continues
PurgeCatch(o, f2) ==
    IF o.raised
    THEN Out(o.rep, Append(o.log, Rec("error", "Error purging", "dir2", f2)),
             o.acts, o.used, FALSE)
    ELSE o

\* mutant of purge_try: whatever is not a regular file is deleted as a
\* directory
purge_try_else(t, f2, budget) ==
    (IF budget >= 1 /\ t[f2].kind # "none"
     THEN {Out(t, <<>>, <<Act("stat_failed", f2)>>, 1, TRUE)} ELSE {})
    \cup
    (IF IsFile(t, f2)
     THEN {After(<<Rec("info", "Deleting file", "dir2", f2)>>, <<>>, o) :
               o \in delete_file(t, f2, budget)}
     ELSE {After(<<Rec("info", "Deleting directory", "dir2", f2)>>, <<>>, o) :
               o \in delete_directory(t, f2, budget)})

\* the try block of one iteration of purge, for the entry f2
purge_try(t, f2, budget) ==
    \* is_file() raises: the type cannot be read
    (IF budget >= 1 /\ t[f2].kind # "none"
     THEN {Out(t, <<>>, <<Act("stat_failed", f2)>>, 1, TRUE)} ELSE {})
    \cup
    (IF IsFile(t, f2)
     THEN {After(<<Rec("info", "Deleting file", "dir2", f2)>>, <<>>, o) :
               o \in delete_file(t, f2, budget)}
     ELSE IF IsDir(t, f2)
     THEN {After(<<Rec("info", "Deleting directory", "dir2", f2)>>, <<>>, o) :
               o \in delete_directory(t, f2, budget)}
     ELSE {Out(t, <<>>, <<>>, 0, FALSE)})

\* one iteration of the for loop of purge
purge(t, f2, budget) == {PurgeCatch(o, f2) : o \in purge_try(t, f2, budget)}

----------------------------------------------------------------------------
(* checks_only_on_source, copy_file_from_source, create_directory_in_target *)

\* mutant of copy_file_from_source: a failure is not logged
copy_file_from_source_silent(s, t, filename, budget) ==
    LET par == Parent(filename)
        t1 == Mkdirs(t, par)
    IN
    IF MkdirFails(t, par)
    THEN {Out(t, <<>>, <<Act("mkdir_failed", filename)>>, 0, FALSE)}
    ELSE IF Copy2Fails(t1, filename)
    THEN {Out(t1, <<>>, <<Act("copy_failed", filename)>>, 0, FALSE)}
    ELSE {Out(Copy2(t1, s[filename], filename),
              <<Rec("info", "Copied file", "dir1", filename)>>,
              <<Act("copy", filename)>>, 0, FALSE)}

\* copy_file_from_source(filename): mkdir of the parent chain, then copy2;
\* every OSError is logged as "Error copying file"
copy_file_from_source(s, t, filename, budget) ==
    LET par == Parent(filename)
        t1 == Mkdirs(t, par)
        made == IF MkdirNew(t, par) # {} THEN <<Act("mkdir", filename)>> ELSE <<>>
        err == <<Rec("error", "Error copying file", "dir1", filename)>>
        ok == <<Rec("info", "Copied file", "dir1", filename)>>
    IN
    (IF MkdirFails(t, par)
     THEN {Out(t, err, <<Act("mkdir_failed", filename)>>, 0, FALSE)}
     ELSE IF Copy2Fails(t1, filename)
     THEN {Out(t1, err, made \o <<Act("copy_failed", filename)>>, 0, FALSE)}
     ELSE {Out(Copy2(t1, s[filename], filename), ok,
               made \o <<Act("copy", filename)>>, 0, FALSE)})
    \cup
    (IF budget >= 1 /\ ~MkdirFails(t, par)
     THEN {Out(t, err, <<Act("mkdir_failed", filename)>>, 1, FALSE),
           Out(t1, err, made \o <<Act("copy_failed", filename)>>, 1, FALSE)}
     ELSE {})

\* create_directory_in_target(f1): mkdir(parents=True, exist_ok=True)
create_directory_in_target(t, f1, budget) ==
    LET err == <<Rec("error", "Error creating directory", "dir2", f1)>>
        ok == <<Rec("info", "Created directory", "dir2", f1)>>
    IN
    (IF MkdirFails(t, f1)
     THEN {Out(t, err, <<Act("mkdir_failed", f1)>>, 0, FALSE)}
     ELSE {Out(Mkdirs(t, f1), ok,
               IF MkdirNew(t, f1) # {} THEN <<Act("mkdir", f1)>> ELSE <<>>,
               0, FALSE)})
    \cup
    (IF budget >= 1 /\ ~MkdirFails(t, f1)
     THEN {Out(t, err, <<Act("mkdir_failed", f1)>>, 1, FALSE)} ELSE {})

\* mutant of CreateCatch: the exception is not handled
CreateCatch_reraise(o, f1) == o

\* the except clause of checks_only_on_source
CreateCatch(o, f1) ==
    IF o.raised
    THEN Out(o.rep, Append(o.log, Rec("error", "Error accessing", "", f1)),
             o.acts, o.used, FALSE)
    ELSE o

\* mutant of checks_try: the branch for directories is missing
checks_try_nodirs(s, t, f1, budget) ==
    (IF budget >= 1 /\ s[f1].kind # "none"
     THEN {Out(t, <<>>, <<Act("stat_failed", f1)>>, 1, TRUE)} ELSE {})
    \cup
    (IF IsFile(s, f1) THEN copy_file_from_source(s, t, f1, budget)
     ELSE {Out(t, <<>>, <<>>, 0, FALSE)})

\* the try block of one iteration of checks_only_on_source
checks_try(s, t, f1, budget) ==
    \* is_file() raises: the type cannot be read
    (IF budget >= 1 /\ s[f1].kind # "none"
     THEN {Out(t, <<>>, <<Act("stat_failed", f1)>>, 1, TRUE)} ELSE {})
    \cup
    (IF IsFile(s, f1) THEN copy_file_from_source(s, t, f1, budget)
     ELSE IF IsDir(s, f1) THEN create_directory_in_target(t, f1, budget)
     ELSE {Out(t, <<>>, <<>>, 0, FALSE)})

\* one iteration of the for loop of checks_only_on_source
checks_only_on_source(s, t, f1, budget) ==
    {CreateCatch(o, f1) : o \in checks_try(s, t, f1, budget)}

----------------------------------------------------------------------------
(* calculate_sha256, update_common_files *)

\* the sentinel calculate_sha256 returns when the file cannot be read
NoHash == <<>>

\* calculate_sha256(file_path): the digest, or the sentinel and an error record
calculate_sha256(e, root, p, budget) ==
    {[hash |-> Sha256(e.content), log |-> <<>>, acts |-> <<>>, used |-> 0]}
    \cup
    (IF budget >= 1
     THEN {[hash |-> NoHash, used |-> 1,
            acts |-> <<Act("read_failed", p)>>,
            log |-> <<Rec("error", "Error calculating SHA-256 hash", root, p)>>]}
     ELSE {})

\* mutant of DigestsDiffer: the comparison is inverted
DigestsDiffer_inverted(h1, h2) == h1 = h2 /\ h1 # NoHash /\ h2 # NoHash

\* mutant of DigestsDiffer: the sentinel of a failed digest is not checked
DigestsDiffer_nosentinel(h1, h2) == h1 # h2

\* the condition under which update_common_files copies
DigestsDiffer(h1, h2) == h1 # h2 /\ h1 # NoHash /\ h2 # NoHash

\* the copy of update_common_files and its except clause
UpdateCopy(s, t, f, budget) ==
    LET err == <<Rec("error", "Error updating file", "dir2", f)>>
        ok == <<Rec("info", "Updated file", "dir2", f)>>
    IN
    (IF Copy2Fails(t, f) THEN {Out(t, err, <<Act("copy_failed", f)>>, 0, FALSE)}
     ELSE {Out(Copy2(t, s[f], f), ok, <<Act("copy", f)>>, 0, FALSE)})
    \cup
    (IF budget >= 1 /\ ~Copy2Fails(t, f)
     THEN {Out(t, err, <<Act("copy_failed", f)>>, 1, FALSE)} ELSE {})

\* one iteration of the for loop of update_common_files
update_common_files(s, t, f, budget) ==
    \* is_file() raises outside any try block: the exception leaves the loop
    (IF budget >= 1 THEN {Out(t, <<>>, <<Act("stat_failed", f)>>, 1, TRUE)} ELSE {})
    \cup
    (IF IsFile(s, f) /\ IsFile(t, f)
     THEN UNION {
            UNION {
              IF DigestsDiffer(h1.hash, h2.hash)
              THEN {After(h1.log \o h2.log, h1.acts \o h2.acts,
                          Out(o.rep, o.log, o.acts,
                              h1.used + h2.used + o.used, o.raised)) :
                       o \in UpdateCopy(s, t, f, budget - h1.used - h2.used)}
              ELSE {Out(t, h1.log \o h2.log, h1.acts \o h2.acts,
                        h1.used + h2.used, FALSE)} :
              h2 \in calculate_sha256(t[f], "dir2", f, budget - h1.used)} :
            h1 \in calculate_sha256(s[f], "dir1", f, budget)}
     ELSE {Out(t, <<>>, <<>>, 0, FALSE)})

----------------------------------------------------------------------------
(* The loop of sync_directories *)

\* the results by which a deletion, a creation, a copy or a digest fails
FailedOps ==
    {"unlink_failed", "rmtree_failed", "mkdir_failed", "copy_failed",
     "read_failed"}

\* the entries for which one of the calls of a failed
FailedIn(a) == {a[i].rel : i \in {j \in 1..Len(a) : a[j].op \in FailedOps}}

HasError(l) == \E i \in 1..Len(l) : l[i].level = "error"

\* the effect of one loop iteration; an exception no except clause handles
\* ends the process
Run(o) ==
    /\ rep' = o.rep
    /\ log' = log \o o.log
    /\ acts' = acts \o o.acts
    /\ faults' = faults + o.used
    /\ pc' = IF o.raised THEN "crashed" ELSE pc

\* the tree below the root named r
TreeAt(r) == IF r = "dir1" THEN src ELSE rep

\* mutant of PurgeRoot: the path to delete is built on the source root
PurgeRoot_source == "dir1"

\* purge: fullf2 = self.dir2 / f2
PurgeRoot == "dir2"

\* copy_file_from_source and create_directory_in_target: self.dir2 / filename
CreateRoot == "dir2"

\* update_common_files: file2 = self.dir2 / f
UpdateRoot == "dir2"

\* the effect of one loop iteration whose writes go below the root named r
RunAt(r, o) ==
    /\ src' = IF r = "dir1" THEN o.rep ELSE src
    /\ rep' = IF r = "dir1" THEN rep ELSE o.rep
    /\ log' = log \o o.log
    /\ acts' = acts \o o.acts
    /\ faults' = faults + o.used
    /\ pc' = IF o.raised THEN "crashed" ELSE pc

\* the state in which the first pass of the loop starts
CycleStart ==
    /\ cycle = 1
    /\ snap1 = {}
    /\ snap2 = {}
    /\ cmp = EmptyCmp
    /\ todo = {}
    /\ log = <<>>
    /\ acts = <<>>
    /\ faults = 0
    /\ rep0 = rep
    /\ prevClean = FALSE
    /\ prevFaults = 0
    /\ prevFailed = {}

\* DirectorySynchronizer(dir1, dir2, ...).sync_directories() on two trees
Init ==
    /\ src \in SrcTrees
    /\ rep \in RepTrees
    /\ pc = "walk1"
    /\ srcRoot = TRUE
    /\ defRoot = TRUE
    /\ CycleStart

\* compare: walk_directory(dir1, dir1_contents)
WalkSource ==
    /\ pc = "walk1"
    /\ \E w \in walk_directory(src, "dir1", MaxFaults - faults) :
        /\ snap1' = w.set
        /\ log' = log \o w.log
        /\ faults' = faults + w.used
    /\ pc' = "walk2"
    /\ UNCHANGED <<src, rep, cycle, snap2, cmp, todo, acts, rep0, prevClean,
                   prevFaults, prevFailed, srcRoot, defRoot>>

\* compare: walk_directory(dir2, dir2_contents)
WalkReplica ==
    /\ pc = "walk2"
    /\ \E w \in walk_directory(rep, "dir2", MaxFaults - faults) :
        /\ snap2' = w.set
        /\ log' = log \o w.log
        /\ faults' = faults + w.used
    /\ pc' = "classify"
    /\ UNCHANGED <<src, rep, cycle, snap1, cmp, todo, acts, rep0, prevClean,
                   prevFaults, prevFailed, srcRoot, defRoot>>

\* mutant of Classify: the classification is computed in the first pass only
Classify_cached ==
    /\ pc = "classify"
    /\ cmp' = IF cycle = 1 THEN compare(snap1, snap2) ELSE cmp
    /\ todo' = cmp'.only_dir2
    /\ pc' = "purge"
    /\ UNCHANGED <<src, rep, cycle, snap1, snap2, log, acts, faults, rep0,
                   prevClean, prevFaults, prevFailed, srcRoot, defRoot>>

\* compare: the three sets; sync_directories then calls purge
Classify ==
    /\ pc = "classify"
    /\ cmp' = compare(snap1, snap2)
    /\ todo' = cmp'.only_dir2
    /\ pc' = "purge"
    /\ UNCHANGED <<src, rep, cycle, snap1, snap2, log, acts, faults, rep0,
                   prevClean, prevFaults, prevFailed, srcRoot, defRoot>>

\* one iteration of the loop of purge
PurgeStep ==
    /\ pc = "purge"
    /\ \E f2 \in todo :
        /\ \E o \in purge(TreeAt(PurgeRoot), f2, MaxFaults - faults) :
               RunAt(PurgeRoot, o)
        /\ todo' = todo \ {f2}
    /\ UNCHANGED <<cycle, snap1, snap2, cmp, rep0, prevClean, prevFaults,
                   prevFailed, srcRoot, defRoot>>

\* mutant of PurgeDone: checks_only_on_source is not called
PurgeDone_skipcreate ==
    /\ pc = "purge"
    /\ todo = {}
    /\ pc' = "update"
    /\ todo' = cmp.common
    /\ UNCHANGED <<src, rep, cycle, snap1, snap2, cmp, log, acts, faults, rep0,
                   prevClean, prevFaults, prevFailed, srcRoot, defRoot>>

\* purge returns; sync_directories calls checks_only_on_source
PurgeDone ==
    /\ pc = "purge"
    /\ todo = {}
    /\ pc' = "create"
    /\ todo' = cmp.only_dir1
    /\ UNCHANGED <<src, rep, cycle, snap1, snap2, cmp, log, acts, faults, rep0,
                   prevClean, prevFaults, prevFailed, srcRoot, defRoot>>

\* one iteration of the loop of checks_only_on_source
CreateStep ==
    /\ pc = "create"
    /\ \E f1 \in todo :
        /\ \E o \in checks_only_on_source(src, TreeAt(CreateRoot), f1,
                                          MaxFaults - faults) :
               RunAt(CreateRoot, o)
        /\ todo' = todo \ {f1}
    /\ UNCHANGED <<cycle, snap1, snap2, cmp, rep0, prevClean, prevFaults,
                   prevFailed, srcRoot, defRoot>>

\* checks_only_on_source returns; sync_directories calls update_common_files
CreateDone ==
    /\ pc = "create"
    /\ todo = {}
    /\ pc' = "update"
    /\ todo' = cmp.common
    /\ UNCHANGED <<src, rep, cycle, snap1, snap2, cmp, log, acts, faults, rep0,
                   prevClean, prevFaults, prevFailed, srcRoot, defRoot>>

\* one iteration of the loop of update_common_files
UpdateStep ==
    /\ pc = "update"
    /\ \E f \in todo :
        /\ \E o \in update_common_files(src, TreeAt(UpdateRoot), f,
                                        MaxFaults - faults) :
               RunAt(UpdateRoot, o)
        /\ todo' = todo \ {f}
    /\ UNCHANGED <<cycle, snap1, snap2, cmp, rep0, prevClean, prevFaults,
                   prevFailed, srcRoot, defRoot>>

\* update_common_files returns; sync_directories calls time.sleep
UpdateDone ==
    /\ pc = "update"
    /\ todo = {}
    /\ pc' = "sleep"
    /\ UNCHANGED <<src, rep, cycle, snap1, snap2, cmp, todo, log, acts, faults,
                   rep0, prevClean, prevFaults, prevFailed, srcRoot, defRoot>>

\* time.sleep returns and the while loop starts its next pass
Sleep ==
    /\ pc = "sleep"
    /\ cycle < MaxCycles
    /\ cycle' = cycle + 1
    /\ pc' = "walk1"
    /\ prevClean' = ~HasError(log)
    /\ prevFaults' = faults
    /\ prevFailed' = FailedIn(acts)
    /\ rep0' = rep
    /\ log' = <<>>
    /\ acts' = <<>>
    /\ faults' = 0
    /\ snap1' = {}
    /\ snap2' = {}
    /\ cmp' = EmptyCmp
    /\ UNCHANGED <<src, rep, todo, srcRoot, defRoot>>

Next ==
    \/ WalkSource
    \/ WalkReplica
    \/ Classify
    \/ PurgeStep
    \/ PurgeDone
    \/ CreateStep
    \/ CreateDone
    \/ UpdateStep
    \/ UpdateDone
    \/ Sleep

Spec == Init /\ [][Next]_vars

TypeOK ==
    /\ WellFormed(src)
    /\ WellFormed(rep)
    /\ faults \in 0..MaxFaults

----------------------------------------------------------------------------
(* main.py: main() and the module's hard-coded source path.  The class      *)
(* DirectorySynchronizer of main.py has the control flow of the one in       *)
(* components/synchronizer.py (it catches Exception where the latter catches *)
(* OSError, and its digest sentinel is None), so the loop steps are shared.  *)

\* what is given on the command line: the source may not exist, and then
\* holds nothing
StartInit ==
    /\ srcRoot \in BOOLEAN
    /\ defRoot \in BOOLEAN
    /\ src \in (IF srcRoot THEN SrcTrees ELSE {EmptyTree})
    /\ rep \in RepTrees
    /\ pc = "start"
    /\ CycleStart

\* main(): the test is made on the module global source ('tests/folder1'),
\* the synchronizer is built on args.source
MainStart ==
    /\ pc = "start"
    /\ IF ~defRoot
       THEN /\ pc' = "exit"
            /\ log' = Append(log, Rec("print", "Source directory does not exist",
                                     "tests/folder1", Root))
       ELSE /\ pc' = "walk1"
            /\ log' = log
    /\ UNCHANGED <<src, rep, cycle, snap1, snap2, cmp, todo, acts, faults, rep0,
                   prevClean, prevFaults, prevFailed, srcRoot, defRoot>>

NextMain ==
    \/ MainStart
    \/ Next

SpecMain == StartInit /\ [][NextMain]_vars

----------------------------------------------------------------------------
(* functions.py: MyClass and the module's startup.  Messages are printed.   *)

\* the records of o as print() emits them
Printed(o) ==
    Out(o.rep, [i \in 1..Len(o.log) |-> [o.log[i] EXCEPT !.level = "print"]],
        o.acts, o.used, o.raised)

\* walk_directory: os.walk ignores the error of a directory it cannot list
fn_walk_directory(t, budget) ==
    {[set |-> WalkResult(t, F), used |-> Cardinality(F), log |-> <<>>] :
        F \in {G \in SUBSET WalkDirs(t) : Cardinality(G) <= budget}}

\* delete_file and delete_directory have the control flow of the class above
fn_delete_file(t, p, budget) == {Printed(o) : o \in delete_file(t, p, budget)}

fn_delete_directory(t, p, budget) ==
    {Printed(o) : o \in delete_directory(t, p, budget)}

\* one iteration of purge: os.path.isfile and os.path.isdir answer False when
\* the type cannot be read
fn_purge(t, f2, budget) ==
    (IF budget >= 1 /\ t[f2].kind # "none"
     THEN {Out(t, <<>>, <<Act("stat_failed", f2)>>, 1, FALSE)} ELSE {})
    \cup
    (IF IsFile(t, f2)
     THEN {Printed(PurgeCatch(
               After(<<Rec("print", "Deleting file", "dir2", f2)>>, <<>>, o), f2)) :
               o \in fn_delete_file(t, f2, budget)}
     ELSE IF IsDir(t, f2)
     THEN {After(<<Rec("print", "Deleting directory", "dir2", f2)>>, <<>>, o) :
               o \in fn_delete_directory(t, f2, budget)}
     ELSE {Out(t, <<>>, <<>>, 0, FALSE)})

\* copy_file_from_source: makedirs only when dir2/rel_dir does not exist, then
\* copy2 onto dir2/rel_dir, which is overwritten when it is a regular file
fn_copy_file_from_source(s, t, filename, budget) ==
    LET par == Parent(filename)
        exists == par = Root \/ t[par].kind # "none"
        t1 == IF exists THEN t ELSE Mkdirs(t, par)
        made == IF t1 # t THEN <<Act("mkdir", filename)>> ELSE <<>>
        target == IF par = Root \/ IsDir(t1, par) THEN filename ELSE par
        errdir == <<Rec("print", "Error creating directory", "dir2", par)>>
        err == <<Rec("print", "Error copying file", "dir1", filename)>>
        ok == <<Rec("print", "Copied file", "dir1", filename)>>
    IN
    (IF ~exists /\ MkdirFails(t, par)
     THEN {Out(t, errdir, <<Act("mkdir_failed", filename)>>, 0, FALSE)}
     ELSE IF t1[target].kind = "dir" \/ t1[target].ro
     THEN {Out(t1, err, made \o <<Act("copy_failed", filename)>>, 0, FALSE)}
     ELSE {Out([t1 EXCEPT ![target] = File(s[filename].content, s[filename].ro)],
               ok, made \o <<Act("copy", filename)>>, 0, FALSE)})
    \cup
    (IF budget >= 1
     THEN {Out(t1, err, made \o <<Act("copy_failed", filename)>>, 1, FALSE)}
     ELSE {})

\* create_directory_in_target: makedirs only when dir2/f1 does not exist
fn_create_directory_in_target(t, f1, budget) ==
    LET err == <<Rec("print", "Error creating directory", "dir2", f1)>>
        ok == <<Rec("print", "Created directory", "dir2", f1)>>
    IN
    IF t[f1].kind # "none" THEN {Out(t, <<>>, <<>>, 0, FALSE)}
    ELSE (IF MkdirFails(t, f1)
          THEN {Out(t, err, <<Act("mkdir_failed", f1)>>, 0, FALSE)}
          ELSE {Out(Mkdirs(t, f1), ok, <<Act("mkdir", f1)>>, 0, FALSE)})
         \cup
         (IF budget >= 1 /\ ~MkdirFails(t, f1)
          THEN {Out(t, err, <<Act("mkdir_failed", f1)>>, 1, FALSE)} ELSE {})

\* one iteration of checks_only_on_source: os.stat, then the type
fn_checks_only_on_source(s, t, f1, budget) ==
    (IF budget >= 1 /\ s[f1].kind # "none"
     THEN {Out(t, <<Rec("print", "Error accessing", "", f1)>>,
               <<Act("stat_failed", f1)>>, 1, FALSE)}
     ELSE {})
    \cup
    (IF IsFile(s, f1) THEN fn_copy_file_from_source(s, t, f1, budget)
     ELSE IF IsDir(s, f1) THEN fn_create_directory_in_target(t, f1, budget)
     ELSE {Out(t, <<>>, <<>>, 0, FALSE)})

\* calculate_sha256: None and a message when open() or read() raises, as it
\* does on a directory
fn_calculate_sha256(e, root, p, budget) ==
    LET fail(u) == [hash |-> NoHash, used |-> u,
                    acts |-> <<Act("read_failed", p)>>,
                    log |-> <<Rec("print", "Error calculating SHA-256 hash",
                                  root, p)>>]
    IN
    (IF e.kind = "file"
     THEN {[hash |-> Sha256(e.content), log |-> <<>>, acts |-> <<>>, used |-> 0]}
     ELSE {fail(0)})
    \cup
    (IF budget >= 1 /\ e.kind = "file" THEN {fail(1)} ELSE {})

\* the part of an iteration of update_common_files after the three os.stat
fn_update_hashes(s, t, f, budget) ==
    UNION {
      UNION {
        IF h1.hash # NoHash /\ h2.hash # NoHash /\ h1.hash # h2.hash
        THEN {Printed(After(h1.log \o h2.log, h1.acts \o h2.acts,
                            Out(o.rep, o.log, o.acts,
                                h1.used + h2.used + o.used, FALSE))) :
                 o \in UpdateCopy(s, t, f, budget - h1.used - h2.used)}
        ELSE {Out(t, h1.log \o h2.log, h1.acts \o h2.acts,
                  h1.used + h2.used, FALSE)} :
        h2 \in fn_calculate_sha256(t[f], "dir2", f, budget - h1.used)} :
      h1 \in fn_calculate_sha256(s[f], "dir1", f, budget)}

\* one iteration of update_common_files; raised stands for the return
\* statement that follows a failed os.stat of file1 or of file2
fn_update_common_files(s, t, f, budget) ==
    \* os.stat(dir1/f) raises: message, continue
    (IF budget >= 1
     THEN {Out(t, <<Rec("print", "Error accessing", "", f)>>,
               <<Act("stat_failed", f)>>, 1, FALSE)}
     ELSE {})
    \cup
    (IF IsFile(s, f)
     THEN \* os.stat(file1) or os.stat(file2) raises: message, return
          (IF budget >= 1
           THEN {Out(t, <<Rec("print", "Error accessing", "dir1", f)>>,
                     <<Act("stat_failed", f)>>, 1, TRUE),
                 Out(t, <<Rec("print", "Error accessing", "dir2", f)>>,
                     <<Act("stat_failed", f)>>, 1, TRUE)}
           ELSE {})
          \cup fn_update_hashes(s, t, f, budget)
     ELSE {Out(t, <<>>, <<>>, 0, FALSE)})

\* the module's startup: exit(1) when the source does not exist
FnStart ==
    /\ pc = "start"
    /\ IF ~srcRoot
       THEN /\ pc' = "exit"
            /\ log' = Append(log, Rec("print", "Directory does not exist",
                                     "dir1", Root))
       ELSE /\ pc' = "walk1"
            /\ log' = log
    /\ UNCHANGED <<src, rep, cycle, snap1, snap2, cmp, todo, acts, faults, rep0,
                   prevClean, prevFaults, prevFailed, srcRoot, defRoot>>

FnWalkSource ==
    /\ pc = "walk1"
    /\ \E w \in fn_walk_directory(src, MaxFaults - faults) :
        /\ snap1' = w.set
        /\ log' = log \o w.log
        /\ faults' = faults + w.used
    /\ pc' = "walk2"
    /\ UNCHANGED <<src, rep, cycle, snap2, cmp, todo, acts, rep0, prevClean,
                   prevFaults, prevFailed, srcRoot, defRoot>>

FnWalkReplica ==
    /\ pc = "walk2"
    /\ \E w \in fn_walk_directory(rep, MaxFaults - faults) :
        /\ snap2' = w.set
        /\ log' = log \o w.log
        /\ faults' = faults + w.used
    /\ pc' = "classify"
    /\ UNCHANGED <<src, rep, cycle, snap1, cmp, todo, acts, rep0, prevClean,
                   prevFaults, prevFailed, srcRoot, defRoot>>

FnPurgeStep ==
    /\ pc = "purge"
    /\ \E f2 \in todo :
        /\ \E o \in fn_purge(rep, f2, MaxFaults - faults) : Run(o)
        /\ todo' = todo \ {f2}
    /\ UNCHANGED <<src, cycle, snap1, snap2, cmp, rep0, prevClean, prevFaults,
                   prevFailed, srcRoot, defRoot>>

FnCreateStep ==
    /\ pc = "create"
    /\ \E f1 \in todo :
        /\ \E o \in fn_checks_only_on_source(src, rep, f1, MaxFaults - faults) :
               Run(o)
        /\ todo' = todo \ {f1}
    /\ UNCHANGED <<src, cycle, snap1, snap2, cmp, rep0, prevClean, prevFaults,
                   prevFailed, srcRoot, defRoot>>

\* one iteration of update_common_files; a return ends sync() with the
\* entries of todo unvisited
FnUpdateStep ==
    /\ pc = "update"
    /\ \E f \in todo :
        /\ \E o \in fn_update_common_files(src, rep, f, MaxFaults - faults) :
            /\ rep' = o.rep
            /\ log' = log \o o.log
            /\ acts' = acts \o o.acts
            /\ faults' = faults + o.used
            /\ pc' = IF o.raised THEN "done" ELSE pc
        /\ todo' = todo \ {f}
    /\ UNCHANGED <<src, cycle, snap1, snap2, cmp, rep0, prevClean, prevFaults,
                   prevFailed, srcRoot, defRoot>>

\* update_common_files returns and sync() with it
FnUpdateDone ==
    /\ pc = "update"
    /\ todo = {}
    /\ pc' = "done"
    /\ UNCHANGED <<src, rep, cycle, snap1, snap2, cmp, todo, log, acts, faults,
                   rep0, prevClean, prevFaults, prevFailed, srcRoot, defRoot>>

NextFunctions ==
    \/ FnStart
    \/ FnWalkSource
    \/ FnWalkReplica
    \/ Classify
    \/ FnPurgeStep
    \/ PurgeDone
    \/ FnCreateStep
    \/ CreateDone
    \/ FnUpdateStep
    \/ FnUpdateDone

SpecFunctions == StartInit /\ [][NextFunctions]_vars

----------------------------------------------------------------------------
(* Vocabulary of the properties *)

\* the entries of a tree
Entries(t) == {p \in Paths : t[p].kind # "none"}

\* the walk of dir2 missed nothing
RepWalkComplete == snap2 = Entries(rep0)

\* the loops of the three phases have ended
CycleDone == pc = "sleep"

\* the loop of purge has ended, or the process has
AfterPurge == pc \in {"create", "update", "sleep", "crashed"}

\* the loop of checks_only_on_source has ended, or the process has
AfterCreate == pc \in {"update", "sleep", "crashed"}

\* the only-replica entries purge has visited
Purged == IF pc = "purge" THEN cmp.only_dir2 \ todo ELSE cmp.only_dir2

\* the call op was made for the entry p in the current cycle
Did(op, p) == \E i \in 1..Len(acts) : acts[i] = Act(op, p)

Count(op, p) == Cardinality({i \in 1..Len(acts) : acts[i] = Act(op, p)})

\* the replica was changed for the entry p in the current cycle
Changed(p) == \E op \in {"unlink", "rmtree", "mkdir", "copy"} : Did(op, p)

\* records of the current cycle that name the relative path p
RecordsFor(p) == {i \in 1..Len(log) : log[i].rel = p}

ErrorsFor(p) == {i \in RecordsFor(p) : log[i].level = "error"}

InfosFor(p) == {i \in RecordsFor(p) : log[i].level = "info"}

LoggedFailure(p) == ErrorsFor(p) # {}

LoggedMsg(msg, p) == \E i \in RecordsFor(p) : log[i].msg = msg

\* the replica entry at p has the type of the source entry and, for a file,
\* the same digest
Mirrored(p) ==
    /\ rep[p].kind = src[p].kind
    /\ IsFile(src, p) => Sha256(rep[p].content) = Sha256(src[p].content)

\* a common path that is a file on one side and a directory on the other
TypeDiffers(p) == p \in cmp.common /\ src[p].kind # rep0[p].kind

\* common paths that are regular files on both sides
CommonFiles == {f \in cmp.common : IsFile(src, f) /\ IsFile(rep0, f)}

\* the deletion of the only-replica entry p was tried and did not remove it,
\* or its type could not be read
DeletionFailed(p) ==
    \/ Did("rmtree_failed", p)
    \/ (Did("unlink_failed", p) /\ ~Did("unlink", p))
    \/ (p \in cmp.only_dir2 /\ Did("stat_failed", p))

----------------------------------------------------------------------------
(* C1 *)

\* C1 as stated: after one cycle every path of the source snapshot is in the
\* replica with the same type and content, unless an error was logged for it.
C1_AsStated ==
    CycleDone => \A p \in snap1 : LoggedFailure(p) \/ Mirrored(p)

\* C1, amended: after a cycle whose walk of the replica was complete, every
\* path of the source snapshot is in the replica with the same type and, for
\* a file, the same content, unless an error was logged for it in the cycle or
\* it is a common path whose type differs between source and replica.
C1_Mirrored ==
    (CycleDone /\ RepWalkComplete) =>
        \A p \in snap1 : LoggedFailure(p) \/ TypeDiffers(p) \/ Mirrored(p)

\* C1 witness: a finished cycle that copied an only-source file below an
\* only-source directory and overwrote a common file
C1_Witness ==
    /\ CycleDone
    /\ RepWalkComplete
    /\ \E p \in cmp.only_dir1 :
          /\ Parent(p) \in cmp.only_dir1
          /\ Did("copy", p)
          /\ Mirrored(p)
    /\ \E q \in cmp.common : Did("copy", q) /\ Mirrored(q)

----------------------------------------------------------------------------
(* C2 *)

\* C2 as stated: after one cycle in which no deletion fails, the replica has
\* no entry whose relative path is absent from the source tree.
C2_AsStated ==
    (CycleDone /\ \A p \in Paths : ~DeletionFailed(p)) =>
        \A p \in Entries(rep) : src[p].kind # "none"

\* C2, amended: after one cycle in which the walk of the replica was complete
\* and no deletion fails, the replica has no entry whose relative path is
\* absent from the source tree.
C2_NoExtraEntry ==
    (CycleDone /\ RepWalkComplete /\ \A p \in Paths : ~DeletionFailed(p)) =>
        \A p \in Entries(rep) : src[p].kind # "none"

\* C2 witness: a finished cycle that removed an only-replica directory with
\* its content and an only-replica file
C2_Witness ==
    /\ CycleDone
    /\ RepWalkComplete
    /\ \A p \in Paths : ~DeletionFailed(p)
    /\ \E p \in cmp.only_dir2 :
          Did("rmtree", p) /\ \E q \in cmp.only_dir2 : Parent(q) = p
    /\ \E p \in cmp.only_dir2 : Did("unlink", p)

----------------------------------------------------------------------------
(* C3 *)

\* C3 as stated, for cycles without injected failure: when the previous cycle
\* ended with no error record, the next cycle classifies every path as common,
\* finds equal contents for every common pair of files and changes nothing.
C3_AsStated ==
    (cycle >= 2 /\ prevClean /\ prevFaults = 0 /\ faults = 0) =>
        /\ cmp.only_dir1 = {}
        /\ cmp.only_dir2 = {}
        /\ \A f \in CommonFiles : src[f].content = rep0[f].content
        /\ \A p \in Paths : ~Changed(p)

----------------------------------------------------------------------------
(* C4 *)

\* both digests of the common file f were computed
DigestsComputed(f) == ~Did("read_failed", f)

\* C4 as stated: for a common path that is a file on both sides, equal
\* digests leave the replica file unwritten and unlogged, and unequal digests
\* leave the replica content equal to the source content after the cycle.
C4_AsStated ==
    CycleDone =>
        \A f \in CommonFiles : DigestsComputed(f) =>
            IF Sha256(src[f].content) = Sha256(rep0[f].content)
            THEN rep[f] = rep0[f] /\ ~Did("copy", f) /\ RecordsFor(f) = {}
            ELSE rep[f].content = src[f].content

\* C4, amended: for a common path that is a file on both sides, equal digests
\* leave the replica file unwritten and unlogged; unequal digests leave the
\* replica content equal to the source content after the cycle unless the
\* copy failed and "Error updating file" was logged for the path.
C4_UpdateByDigest ==
    CycleDone =>
        \A f \in CommonFiles : DigestsComputed(f) =>
            IF Sha256(src[f].content) = Sha256(rep0[f].content)
            THEN rep[f] = rep0[f] /\ ~Did("copy", f) /\ RecordsFor(f) = {}
            ELSE \/ rep[f].content = src[f].content
                 \/ LoggedMsg("Error updating file", f)

\* C4 witness: a finished cycle with one common file of equal content left
\* alone and one of different content overwritten
C4_Witness ==
    /\ CycleDone
    /\ \E f \in CommonFiles :
          /\ src[f].content = rep0[f].content
          /\ DigestsComputed(f)
    /\ \E f \in CommonFiles :
          /\ src[f].content # rep0[f].content
          /\ Did("copy", f)
          /\ rep[f].content = src[f].content

----------------------------------------------------------------------------
(* C6 *)

\* only-replica entries that were write-protected files when the cycle began
ReadOnlyExtras == {p \in cmp.only_dir2 : IsFile(rep0, p) /\ rep0[p].ro}

\* C6: while no failure is injected in the cycle, every write-protected
\* only-replica file that purge has visited is gone: its first unlink failed,
\* the protection was cleared and the retried unlink removed it.
C6_ReadOnlyRemoved ==
    faults = 0 =>
        \A p \in ReadOnlyExtras \cap Purged :
            /\ rep[p] = Absent
            /\ Count("unlink_failed", p) = 1
            /\ Count("unlink", p) = 1

\* C6 witness: a finished cycle without injected failure that removed a
\* write-protected only-replica file
C6_Witness ==
    /\ CycleDone
    /\ faults = 0
    /\ \E p \in ReadOnlyExtras : rep[p] = Absent /\ Did("unlink_failed", p)

----------------------------------------------------------------------------
(* C7 *)

\* the only-replica entry q is still there without a failure of its own
LeftBehind(q) == rep[q] # Absent /\ ~DeletionFailed(q)

\* C7: a file is unlinked at most twice; when the retry fails too, exactly
\* one error record, "Error purging", names the entry; and once purge has
\* ended no only-replica entry is still there without a failure of its own.
C7_RetryOnceAndContinue ==
    /\ \A p \in Paths :
          /\ Count("unlink", p) + Count("unlink_failed", p) <= 2
          /\ Count("unlink_failed", p) = 2 =>
                /\ Cardinality(ErrorsFor(p)) = 1
                /\ LoggedMsg("Error purging", p)
    /\ AfterPurge => \A q \in cmp.only_dir2 : ~LeftBehind(q)

\* C7 witness: the retry failed for one only-replica file and a later
\* iteration of purge removed another entry
C7_Witness ==
    \E p, q \in cmp.only_dir2 :
        /\ p # q
        /\ Count("unlink_failed", p) = 2
        /\ rep[p] # Absent
        /\ \E i, j \in 1..Len(acts) :
              /\ i < j
              /\ acts[i] = Act("unlink_failed", p)
              /\ acts[j] \in {Act("unlink", q), Act("rmtree", q)}
        /\ AfterPurge

----------------------------------------------------------------------------
(* C9 *)

\* records the create phase emits for the only-source entry p
CreateInfos(p) ==
    {i \in InfosFor(p) : log[i].msg \in {"Copied file", "Created directory"}}

\* C9: once checks_only_on_source has ended, every only-source entry has been
\* handled, leaving exactly one record: an error record when its mkdir or
\* its copy failed or its type could not be read, an info record otherwise.
C9_CreateFailureIsolated ==
    AfterCreate =>
        \A p \in cmp.only_dir1 :
            LET failed == \/ Did("mkdir_failed", p)
                          \/ Did("copy_failed", p)
                          \/ Did("stat_failed", p)
            IN /\ Cardinality(CreateInfos(p)) + Cardinality(ErrorsFor(p)) = 1
               /\ failed <=> ErrorsFor(p) # {}

\* C9 witness: the creation of one only-source entry failed and a later
\* iteration created another
C9_Witness ==
    /\ AfterCreate
    /\ \E p, q \in cmp.only_dir1 :
          /\ p # q
          /\ \E i, j \in 1..Len(acts) :
                /\ i < j
                /\ acts[i] \in {Act("mkdir_failed", p), Act("copy_failed", p)}
                /\ acts[j] \in {Act("mkdir", q), Act("copy", q)}
          /\ ErrorsFor(p) # {}
          /\ Mirrored(q)

----------------------------------------------------------------------------
(* C10 *)

\* C10: when a digest of the common file f could not be computed, an error
\* record "Error calculating SHA-256 hash" names f and the replica file is
\* not overwritten in that cycle.
C10_DigestFailureSkips ==
    \A f \in Paths :
        Did("read_failed", f) =>
            /\ LoggedMsg("Error calculating SHA-256 hash", f)
            /\ ~Did("copy", f)
            /\ ~Did("copy_failed", f)
            /\ rep[f] = rep0[f]

\* C10 witness: a finished cycle in which a digest failed for a common file
\* whose content differs between source and replica
C10_Witness ==
    /\ CycleDone
    /\ \E f \in CommonFiles :
          /\ Did("read_failed", f)
          /\ src[f].content # rep0[f].content

----------------------------------------------------------------------------
(* C5 *)

\* C5 as stated: when the source root does not exist at startup, the absence
\* is reported, no cycle runs and the replica is left unchanged.
C5_AsStated ==
    ~srcRoot =>
        /\ pc \in {"start", "exit"}
        /\ pc = "exit" => Len(log) = 1
        /\ rep = rep0 /\ acts = <<>>

----------------------------------------------------------------------------
(* C8 *)

\* the for loop of update_common_files is over
UpdateOver == pc \in {"sleep", "done", "crashed"}

\* C8 as stated: whatever fails on one common entry, the loop of
\* update_common_files visits every other common entry and the cycle goes on.
C8_AsStated == UpdateOver => (todo = {} /\ pc # "crashed")

----------------------------------------------------------------------------
(* C11 *)

\* C11 as stated: when the recursive deletion of an only-replica directory
\* does not remove it, an error record is emitted for that directory.
C11_AsStated ==
    \A p \in Paths : Did("rmtree_failed", p) => ErrorsFor(p) # {}

----------------------------------------------------------------------------
(* C12 *)

\* C12 as stated: an only-replica entry whose deletion fails has exactly one
\* error record and no info record in the cycle.
C12_AsStated ==
    \A p \in cmp.only_dir2 :
        DeletionFailed(p) =>
            InfosFor(p) = {} /\ Cardinality(ErrorsFor(p)) = 1

----------------------------------------------------------------------------
(* C13 *)

\* compare has returned for the snapshots snap1 and snap2 of the cycle
Classified == pc \in {"purge", "create", "update", "sleep", "crashed"}

\* C13: the three sets compare returns for the snapshots S1 and S2 are
\* pairwise disjoint, common is S1 intersect S2, only_dir1 is S1 minus common,
\* only_dir2 is S2 minus common, and every path of S1 union S2 is in exactly
\* one of the three.
C13_Partition ==
    Classified =>
        /\ cmp.common = {p \in Paths : p \in snap1 /\ p \in snap2}
        /\ cmp.only_dir1 = {p \in snap1 : p \notin cmp.common}
        /\ cmp.only_dir2 = {p \in snap2 : p \notin cmp.common}
        /\ cmp.only_dir1 \cap cmp.only_dir2 = {}
        /\ cmp.only_dir1 \cap cmp.common = {}
        /\ cmp.only_dir2 \cap cmp.common = {}
        /\ \A p \in snap1 \cup snap2 :
              Cardinality({k \in {"only_dir1", "only_dir2", "common"} :
                              p \in cmp[k]}) = 1

\* C13 witness: a classification in which none of the three sets is empty
C13_Witness ==
    /\ Classified
    /\ cmp.only_dir1 # {}
    /\ cmp.only_dir2 # {}
    /\ cmp.common # {}

----------------------------------------------------------------------------
(* C14 *)

\* a common path that is a directory in the source and in the replica
BothDirs(p) == p \in cmp.common /\ IsDir(src, p) /\ IsDir(rep0, p)

\* C14 as stated, for a cycle without any injected failure: once the loop of
\* update_common_files is over, a common path that is a directory on both
\* sides, or a file on one side and a directory on the other, has no record,
\* no write, and its replica entry unchanged.
C14_AsStated ==
    (UpdateOver /\ faults = 0) =>
        \A p \in cmp.common :
            (BothDirs(p) \/ TypeDiffers(p)) =>
                /\ RecordsFor(p) = {}
                /\ ~Changed(p) /\ ~Did("copy_failed", p)
                /\ rep[p] = rep0[p]

----------------------------------------------------------------------------
(* C15 *)

\* the successions of program positions sync_directories allows; an
\* exception that leaves update_common_files ends the process
PhaseSteps ==
    {<<"walk1", "walk2">>, <<"walk2", "classify">>, <<"classify", "purge">>,
     <<"purge", "purge">>, <<"purge", "create">>,
     <<"create", "create">>, <<"create", "update">>,
     <<"update", "update">>, <<"update", "sleep">>, <<"update", "crashed">>,
     <<"sleep", "walk1">>}

\* one step of a cycle respects the order of the phases and the classification
PhaseOrder ==
    /\ <<pc, pc'>> \in PhaseSteps
    \* the classification is computed once, from the two walks, before purge
    /\ pc = "classify" => cmp' = compare(snap1, snap2) /\ todo' = cmp'.only_dir2
    /\ pc \in {"purge", "create", "update"} =>
           cmp' = cmp /\ snap1' = snap1 /\ snap2' = snap2
    \* each phase works through its own set of that classification
    /\ (pc = "purge" /\ pc' = "create") => todo = {} /\ todo' = cmp.only_dir1
    /\ (pc = "create" /\ pc' = "update") => todo = {} /\ todo' = cmp.common
    /\ (pc = "update" /\ pc' = "sleep") => todo = {}
    /\ (pc = pc' \/ pc' = "crashed") =>
           /\ todo' \subseteq todo
           /\ Cardinality(todo \ todo') = 1
           /\ todo \ todo' \subseteq
                  (CASE pc = "purge" -> cmp.only_dir2
                     [] pc = "create" -> cmp.only_dir1
                     [] OTHER -> cmp.common)
    \* the next cycle starts from the sleep only
    /\ cycle' # cycle => pc = "sleep" /\ pc' = "walk1" /\ cycle' = cycle + 1
    /\ pc' = "walk1" => cycle' = cycle + 1

\* C15: in every cycle the phases run in the order walk source, walk replica,
\* classify, purge, create, update, sleep; the classification is computed
\* once before the purge and used by the three phases; no phase of the next
\* cycle starts before the sleep of the current one.
C15_PhaseOrder == [][PhaseOrder]_vars

\* C15 witness: the second cycle has reached its sleep after a purge phase
\* that deleted an entry, a create phase that created one and an update
\* phase that visited a common entry
C15_Witness ==
    /\ cycle = 2
    /\ pc = "sleep"
    /\ \E p \in cmp.only_dir2 : Did("unlink", p) \/ Did("rmtree", p)
    /\ \E p \in cmp.only_dir1 : Did("copy", p) \/ Did("mkdir", p)
    /\ cmp.common # {}

----------------------------------------------------------------------------
(* C16 *)

\* C16 as stated: the loop has no fault state; whatever fails inside a cycle,
\* the process is never ended by it.
C16_AsStated == pc # "crashed"

----------------------------------------------------------------------------
(* C17 *)

\* the replica has at p what the source has: nothing, a directory, or a file
\* with the same content
Healed(p) == IF src[p].kind = "none" THEN rep[p] = Absent ELSE Mirrored(p)

\* a filesystem call failed for the entry p in the current cycle
FailedNow(p) == p \in FailedIn(acts)

\* the snapshots and the classification of the current cycle are those of
\* the trees as they are in this cycle
FreshClassification ==
    /\ snap1 = Entries(src)
    /\ snap2 = Entries(rep0)
    /\ cmp = compare(Entries(src), Entries(rep0))

\* C17 as stated: in a cycle without injected failure that follows a cycle
\* with failures, the trees are walked and classified anew, and an entry
\* whose deletion, creation, copy or digest failed in the previous cycle is
\* in order at the end of the cycle unless its operation fails again.
C17_AsStated ==
    (cycle >= 2 /\ faults = 0) =>
        /\ Classified => FreshClassification
        /\ CycleDone => \A p \in prevFailed : Healed(p) \/ FailedNow(p)

\* C17, amended: in a cycle without injected failure that follows a cycle
\* with failures, both trees are walked and classified anew, and an entry
\* whose deletion, creation, copy or digest failed in the previous cycle is
\* in order at the end of the cycle, unless its operation fails again or it
\* is now a common path whose type differs between source and replica, for
\* which nothing is attempted.
C17_SelfHealing ==
    (cycle >= 2 /\ faults = 0) =>
        /\ Classified => FreshClassification
        /\ CycleDone =>
               \A p \in prevFailed : Healed(p) \/ FailedNow(p) \/ TypeDiffers(p)

\* C17 witness: the second cycle, free of injected failures, has deleted an
\* entry, copied an entry and created a directory whose operation had failed
\* in the first cycle
C17_Witness ==
    /\ cycle = 2
    /\ faults = 0
    /\ CycleDone
    /\ \E p \in prevFailed :
          /\ Healed(p)
          /\ ~FailedNow(p)
          /\ Changed(p)

----------------------------------------------------------------------------
(* C18 *)

\* the replica entries the purge phase of the current cycle has removed
PurgeRemoved ==
    IF pc \in {"purge", "create"}
    THEN {p \in Paths : rep0[p] # Absent /\ rep[p] = Absent}
    ELSE {}

\* C18 as stated: the purge phase removes only replica entries whose
\* relative path does not exist in the source tree, and none that is
\* classified as common.
C18_AsStated ==
    \A p \in PurgeRemoved : src[p].kind = "none" /\ p \notin cmp.common

----------------------------------------------------------------------------
(* C19 *)

\* C19: no step of any cycle creates, deletes or writes an entry of the
\* source tree; its paths, types and contents stay what they were.
C19_SourceUnchanged == [][src' = src]_vars

\* C19 witness: a cycle has reached its sleep after it deleted a replica
\* entry, created a directory and copied a file
C19_Witness ==
    /\ pc = "sleep"
    /\ Entries(src) # {}
    /\ \E p \in Paths : Did("unlink", p) \/ Did("rmtree", p)
    /\ \E p \in Paths : Did("mkdir", p)
    /\ \E p \in Paths : Did("copy", p)

----------------------------------------------------------------------------
(* C20 *)

\* what a cycle makes of the replica entry at p when every operation works,
\* as a function of the two trees alone: extras are removed, missing entries
\* created, common files of different content overwritten, and a common path
\* whose type differs is left as it is
Settled(s, t, p) ==
    IF s[p].kind = "none" THEN Absent
    ELSE IF t[p].kind # "none" /\ t[p].kind # s[p].kind THEN t[p]
    ELSE IF s[p].kind = "dir" THEN Dir
    ELSE IF t[p].kind = "file" /\ t[p].content = s[p].content THEN t[p]
    ELSE File(s[p].content, s[p].ro)

\* a cycle has ended in which no failure was injected and no error recorded
FailureFree == CycleDone /\ faults = 0 /\ ~HasError(log)

----------------------------------------------------------------------------
(* C21 *)

\* a step of the loop of purge that visits an entry the replica no longer has
\* changes nothing but the set of entries left to visit
VisitOfMissing ==
    (pc = "purge" /\ todo' # todo) =>
        \A f2 \in todo \ todo' :
            rep[f2].kind = "none" =>
                /\ rep' = rep
                /\ log' = log
                /\ acts' = acts
                /\ pc' = pc

\* C21: in the purge phase, an only-replica path that is neither a file nor
\* a directory when it is visited causes no deletion attempt, no info record
\* and no error record.
C21_MissingSkipped == [][VisitOfMissing]_vars

\* C21 witness: the purge has ended; an only-replica entry that existed at
\* the walk was removed with its ancestor directory and then visited, and
\* there is neither a call nor a record for it
C21_Witness ==
    /\ pc = "create"
    /\ \E p \in cmp.only_dir2 :
          /\ rep0[p].kind # "none"
          /\ rep[p].kind = "none"
          /\ \E a \in Ancestors(p) : Did("rmtree", a)
          /\ RecordsFor(p) = {}
          /\ \A i \in 1..Len(acts) : acts[i].rel # p

----------------------------------------------------------------------------
(* C22 *)

\* the source entries below p
SrcBelow(p) == {q \in Paths : q # p /\ IsUnder(q, p) /\ src[q].kind # "none"}

\* paths that are a directory with a descendant in the source and a regular
\* file in the replica when the cycle starts
FileOverDir ==
    {p \in Paths : IsDir(src, p) /\ IsFile(rep0, p) /\ SrcBelow(p) # {}}

\* at the end of the create phase the replica file at p is in place, every
\* source entry below p has an error record and none is in the replica
StuckAt(p) ==
    /\ rep[p] = rep0[p]
    /\ \A q \in SrcBelow(p) : ErrorsFor(q) # {} /\ rep[q].kind = "none"

\* both walks of the cycle listed their whole tree
WalksComplete == snap1 = Entries(src) /\ snap2 = Entries(rep0)

====
